---------------------------- MODULE Spec2Model ----------------------------
(***************************************************************************)
(* State-machine model of src/server.js: the short-video server.  It      *)
(* sources stock clips, composes them with an external encoder, uploads    *)
(* the result, and reports progress to server-sent-event observers.        *)
(*                                                                         *)
(* The server is single-threaded: a handler runs without interruption up   *)
(* to its next `await`, so every action below is one such uninterrupted    *)
(* stretch of code, and runs interleave only at their awaits.              *)
(*                                                                         *)
(* Text is modelled as sequences of one-character strings where its       *)
(* length matters (captions) and as sequences of parts elsewhere (status   *)
(* line); the Arabic literals of the source are given in English.          *)
(***************************************************************************)
EXTENDS Integers, Sequences, FiniteSets, TLC

VARIABLES
    credentials,   \* oauth2Client.credentials.access_token is present
    statusLog,     \* the status line, a sequence of text parts
    settings,      \* [autoEnabled, autoScheduleCron]
    cronJob,       \* the schedule expression of the registered task, or Null
    activeTasks,   \* node-cron tasks that are started: expression -> how many
    settingsReqs,  \* POST /settings handlers suspended at `await saveSettings()`
    runs,          \* one record per invocation of generateAndUpload
    files,         \* files of the runs present in tmp/
    response,      \* body of the last POST /generate response
    fetch,         \* one call of fetchClipsForTopic, query by query
    cap,           \* one call of generateCaption, tag by tag
    sseClients,    \* the registry of connected observers
    observers,     \* per observer: connection state and what was written to it
    broadcasts,    \* per broadcast so far: the observers open when it was made
    music,         \* bgMusicPath, the cached file and the calls of ensureBgMusic
    createVideo    \* the locals of one call of createVideo, up to cmd.save

pipeVars == <<credentials, statusLog, settings, cronJob, activeTasks,
              settingsReqs, runs, files, response>>

sourcingVars == <<fetch>>
captionVars == <<cap>>
sseVars == <<sseClients, observers, broadcasts>>
musicVars == <<music>>
videoVars == <<createVideo>>
vars == <<pipeVars, sourcingVars, captionVars, sseVars, musicVars, videoVars>>

Null == "null"

----------------------------------------------------------------------------
(* Bounds of the model *)

MaxRuns == 1        \* invocations of the run-starting code in one behaviour
MaxReports == 2     \* progress reports of the encoder in one composition
MaxSettingsReqs == 1 \* POST /settings requests in flight at once

RunIds == 1..MaxRuns

(* Native progress values the encoder reports (p.percent); 0 stands for a  *)
(* report whose percent is 0 or missing.                                   *)
NativeValues == {0, 25, 50}

(* The id videos.insert returns *)
VideoIds == {"vidA"}

----------------------------------------------------------------------------
(* Program constants *)

MinClips == 6       \* chosen.length < 6 throws
ClipCap == 8        \* chosen.length >= 8 stops the search
PctStart == 5
PctClipsSpan == 25
PctClipsMax == 30
PctCaption == 32
PctComposeMin == 35
PctComposeMax == 75
PctPrepare == 82
PctUploadStart == 85
PctUploadEnd == 98
PctDone == 100

MsgInsufficient == "not enough clips from Pexels"
MsgDownload == "Download failed 500"
MsgEncoder == "ffmpeg exited with code 1"
MsgUpload == "upload rejected"
MsgNoCredential == "please link YouTube first."
MsgUploaded == "uploaded successfully"

DefaultCron == "0 14 * * *"
OtherCron == "*/5 * * * *"
BadCron == "not a cron"
ValidCron(e) == e \in {DefaultCron, OtherCron}

----------------------------------------------------------------------------
(* Broadcast payloads (ts left out) *)

ProgressEvent(stepId, percent) ==
    [type |-> "progress", stepId |-> stepId, percent |-> percent]
DoneEvent(url) == [type |-> "done", url |-> url]
ErrorEvent(message) == [type |-> "error", message |-> message]

(* Math.round for a non-negative rational num/den: floor(x + 1/2) *)
Round(num, den) == (2 * num + den) \div (2 * den)

Min(a, b) == IF a <= b THEN a ELSE b
Max(a, b) == IF a >= b THEN a ELSE b

(* fetchClipsForTopic, line 247: too few candidates were chosen *)
InsufficientOffByOne(n) == n <= MinClips

Insufficient(n) == n < MinClips

(* fetchClipsForTopic: percent after `done` of `total` clips are on disk *)
ClipPct(done, total) ==
    Min(PctClipsMax, PctStart + Round(done * PctClipsSpan, total))

(* createVideo: the encoder's native percent mapped into the compose band *)
ComposePct(native) ==
    Max(PctComposeMin, Min(PctComposeMax, PctComposeMin + Round(native * 4, 10)))

ClipFile(r, i) == [run |-> r, kind |-> "clip", idx |-> i]
OutFile(r) == [run |-> r, kind |-> "out", idx |-> 0]

ShareUrl(id) == <<"https://youtu.be/", id>>

(* the status lines the handlers write (the timestamp is the part "ts") *)
StatusInitial == <<"no run yet">>
StatusLinked == <<"YouTube account linked">>
StatusNoCredential == <<MsgNoCredential>>
StatusManualOk == <<"ts", " : ", MsgUploaded>>
StatusCronOk(url) == <<"ts", " : ", MsgUploaded, " - ">> \o url
StatusFailed(message) == <<"ts", " : ", "failed: ", message>>

IdleRun ==
    [trigger |-> "none", pc |-> "idle", chosen |-> 0, clips |-> 0,
     lastPct |-> PctComposeMin, reports |-> 0, url |-> <<>>,
     unlinks |-> 0, calls |-> <<>>, events |-> <<>>]


----------------------------------------------------------------------------
(* Scheduling: scheduleAutoJob *)

NoTasks == [e \in {DefaultCron, OtherCron} |-> 0]

StopTask(tasks, job) ==
    IF job = Null THEN tasks ELSE [tasks EXCEPT ![job] = @ - 1]

(* scheduleAutoJob without lines 394-397: the old task keeps running *)
scheduleAutoJobNoStop(job, tasks, s) ==
    IF ~s.autoEnabled \/ ~ValidCron(s.autoScheduleCron)
    THEN [cronJob |-> Null, activeTasks |-> tasks]
    ELSE [cronJob |-> s.autoScheduleCron,
          activeTasks |-> [tasks EXCEPT ![s.autoScheduleCron] = @ + 1]]

(* The registered task and the started tasks after scheduleAutoJob() runs  *)
(* with settings s.  cron.schedule throws on an invalid expression, after  *)
(* the old task was stopped and cronJob cleared.                           *)
scheduleAutoJob(job, tasks, s) ==
    LET stopped == StopTask(tasks, job) IN
    IF ~s.autoEnabled \/ ~ValidCron(s.autoScheduleCron)
    THEN [cronJob |-> Null, activeTasks |-> stopped]
    ELSE [cronJob |-> s.autoScheduleCron,
          activeTasks |-> [stopped EXCEPT ![s.autoScheduleCron] = @ + 1]]

----------------------------------------------------------------------------
(* State after the module's top level has run (lines 32-107, 416) *)

InitPipeline ==
    /\ credentials \in BOOLEAN                   \* loadSavedToken()
    /\ statusLog = StatusInitial
    /\ settings \in [autoEnabled : BOOLEAN,      \* AUTO_ENABLED, loadSettings()
                     autoScheduleCron : {DefaultCron}]
    /\ LET sched == scheduleAutoJob(Null, NoTasks, settings) IN
         /\ cronJob = sched.cronJob
         /\ activeTasks = sched.activeTasks
    /\ settingsReqs = 0
    /\ runs = [r \in RunIds |-> IdleRun]
    /\ files = {}
    /\ response = "none"

----------------------------------------------------------------------------
(* Broadcasting on behalf of a run: every payload handed to               *)
(* broadcastProgress / broadcastDone / broadcastError is appended to the   *)
(* run's record, in emission order.                                        *)

Emit(run, payloads) == [run EXCEPT !.events = @ \o payloads]

Called(run, stage) == [run EXCEPT !.calls = Append(@, stage)]

Last(seq) == seq[Len(seq)]

(* A free slot for a new invocation stands for the next call of           *)
(* generateAndUpload; slots are taken in order.                            *)
NextRun == CHOOSE r \in RunIds : runs[r].pc = "idle" /\
                                 \A q \in RunIds : q < r => runs[q].pc # "idle"
CanStart == \E r \in RunIds : runs[r].pc = "idle"

(* generateAndUpload up to its first await: fetchClipsForTopic broadcasts *)
(* 5% and suspends in the first provider query.                            *)
StartedRun(trigger) ==
    Emit(Called([IdleRun EXCEPT !.trigger = trigger, !.pc = "sourcing"],
                "fetchClips"),
         <<ProgressEvent("clips", PctStart)>>)

(* Variants of the catch block with a plausible slip: the failure is      *)
(* reported but the run carries on; the event carries a fixed text instead *)
(* of the error's message.                                                 *)
CaughtKeepsGoing(r, message, leftFiles) ==
    /\ runs' = [runs EXCEPT ![r] = Emit(@, <<ErrorEvent(message)>>)]
    /\ statusLog' = StatusFailed(message)
    /\ files' = leftFiles

CaughtGenericMessage(r, message, leftFiles) ==
    /\ runs' = [runs EXCEPT ![r] =
                  Emit([@ EXCEPT !.pc = "failed"], <<ErrorEvent("failed")>>)]
    /\ statusLog' = StatusFailed(message)
    /\ files' = leftFiles

(* The catch block of the code that started the run (lines 408-411 and    *)
(* 485-488): status line, then broadcastError.                             *)
Caught(r, message, leftFiles) ==
    /\ runs' = [runs EXCEPT ![r] =
                  Emit([@ EXCEPT !.pc = "failed"], <<ErrorEvent(message)>>)]
    /\ statusLog' = StatusFailed(message)
    /\ files' = leftFiles

----------------------------------------------------------------------------
(* Triggers *)

(* POST /generate without the credential check of line 473 *)
PostGenerateUnchecked ==
    /\ CanStart
    /\ runs' = [runs EXCEPT ![NextRun] = StartedRun("manual")]
    /\ response' = "started"
    /\ UNCHANGED <<credentials, statusLog, settings, cronJob, activeTasks,
                   settingsReqs, files>>
    /\ UNCHANGED <<sourcingVars, captionVars, sseVars, musicVars, videoVars>>

(* POST /generate *)
PostGenerate ==
    /\ IF ~credentials
       THEN /\ response' = "link YouTube first"
            /\ UNCHANGED runs
       ELSE /\ CanStart
            /\ runs' = [runs EXCEPT ![NextRun] = StartedRun("manual")]
            /\ response' = "started"
    /\ UNCHANGED <<credentials, statusLog, settings, cronJob, activeTasks,
                   settingsReqs, files>>
    /\ UNCHANGED <<sourcingVars, captionVars, sseVars, musicVars, videoVars>>

(* The callback's early return, lines 401-405: the firing is skipped with *)
(* a status line and an error broadcast, and the pipeline is not called.   *)
SkippedRun ==
    Emit([IdleRun EXCEPT !.trigger = "cron", !.pc = "skipped"],
         <<ErrorEvent(MsgNoCredential)>>)

(* A started node-cron task fires: the callback of lines 399-412 *)
CronFire ==
    /\ \E e \in DOMAIN activeTasks : activeTasks[e] > 0
    /\ CanStart
    /\ IF ~credentials
       THEN /\ statusLog' = StatusNoCredential
            /\ runs' = [runs EXCEPT ![NextRun] = SkippedRun]
       ELSE /\ runs' = [runs EXCEPT ![NextRun] = StartedRun("cron")]
            /\ UNCHANGED statusLog
    /\ UNCHANGED <<credentials, settings, cronJob, activeTasks, settingsReqs,
                   files, response>>
    /\ UNCHANGED <<sourcingVars, captionVars, sseVars, musicVars, videoVars>>

(* GET /oauth2callback with a code the provider accepts; saveToken may    *)
(* fail after the credentials were set, and then the status line is kept.  *)
OAuthCallback ==
    /\ credentials' = TRUE
    /\ \E saved \in BOOLEAN :
         statusLog' = IF saved THEN StatusLinked ELSE statusLog
    /\ UNCHANGED <<settings, cronJob, activeTasks, settingsReqs, runs, files,
                   response>>
    /\ UNCHANGED <<sourcingVars, captionVars, sseVars, musicVars, videoVars>>

----------------------------------------------------------------------------
(* The pipeline: generateAndUpload, one action per resumption after an await *)

RunFiles(r) == {f \in files : f.run = r}

(* fetchClipsForTopic, lines 229-247: the provider queries are over and n *)
(* candidates were chosen.  Fewer than MinClips throws; otherwise the      *)
(* first download starts.                                                  *)
QueriesDone(r) ==
    /\ runs[r].pc = "sourcing"
    /\ \E n \in 0..ClipCap :
         IF Insufficient(n)
         THEN Caught(r, MsgInsufficient, files)
         ELSE /\ runs' = [runs EXCEPT ![r] = [@ EXCEPT !.chosen = n,
                                                       !.pc = "downloading"]]
              /\ UNCHANGED <<statusLog, files>>
    /\ UNCHANGED <<credentials, settings, cronJob, activeTasks, settingsReqs,
                   response>>
    /\ UNCHANGED <<sourcingVars, captionVars, sseVars, musicVars, videoVars>>

(* What follows the last download without an await: fetchClipsForTopic    *)
(* returns, generateAndUpload broadcasts 32%, builds the caption and calls *)
(* createVideo, which suspends with the encoder running.                   *)
EnterCompose(run) ==
    Emit(Called(Called([run EXCEPT !.pc = "composing"], "fetchClipsOk"),
                "createVideo"),
         <<ProgressEvent("caption", PctCaption)>>)

(* The catch block for a run whose encoder is no longer reporting *)
CaughtEncoder(r, message, leftFiles) ==
    /\ runs' = [runs EXCEPT ![r] =
                  Emit([@ EXCEPT !.pc = "failed", !.reports = 0],
                       <<ErrorEvent(message)>>)]
    /\ statusLog' = StatusFailed(message)
    /\ files' = leftFiles

(* lines 250-256: downloadToFile resolves for the next chosen item *)
DownloadOk(r) ==
    /\ runs[r].pc = "downloading"
    /\ LET run == runs[r]
           n == run.clips + 1
           got == Emit([run EXCEPT !.clips = n],
                       <<ProgressEvent("clips", ClipPct(n, run.chosen))>>)
       IN /\ files' = files \cup {ClipFile(r, n)}
          /\ runs' = [runs EXCEPT ![r] =
                        IF n < run.chosen THEN got ELSE EnterCompose(got)]
    /\ UNCHANGED <<credentials, statusLog, settings, cronJob, activeTasks,
                   settingsReqs, response>>
    /\ UNCHANGED <<sourcingVars, captionVars, sseVars, musicVars, videoVars>>

(* line 252: downloadToFile throws; nothing in fetchClipsForTopic or      *)
(* generateAndUpload catches it                                            *)
DownloadFail(r) ==
    /\ runs[r].pc = "downloading"
    /\ Caught(r, MsgDownload, files)
    /\ UNCHANGED <<credentials, settings, cronJob, activeTasks, settingsReqs,
                   response>>
    /\ UNCHANGED <<sourcingVars, captionVars, sseVars, musicVars, videoVars>>

(* The progress handler without the test of line 335 *)
OnProgressEveryReport(run, p) ==
    LET pct == ComposePct(p) IN
    IF p # 0
    THEN Emit([run EXCEPT !.lastPct = pct], <<ProgressEvent("compose", pct)>>)
    ELSE run

(* lines 332-340: the encoder's 'progress' event with native percent p *)
OnProgress(run, p) ==
    LET pct == ComposePct(p) IN
    IF p # 0 /\ pct # run.lastPct
    THEN Emit([run EXCEPT !.lastPct = pct], <<ProgressEvent("compose", pct)>>)
    ELSE run

EncoderProgressFrom(r, natives) ==
    /\ runs[r].pc = "composing"
    /\ runs[r].reports < MaxReports
    /\ \E p \in natives :
         runs' = [runs EXCEPT ![r] =
                    [OnProgress(@, p) EXCEPT !.reports = @ + 1]]
    /\ UNCHANGED <<credentials, statusLog, settings, cronJob, activeTasks,
                   settingsReqs, files, response>>
    /\ UNCHANGED <<sourcingVars, captionVars, sseVars, musicVars, videoVars>>

EncoderProgress(r) == EncoderProgressFrom(r, NativeValues)

(* Native values over the whole range the encoder library can report:      *)
(* negative, 0 or missing, small, in range, 100, and beyond 100            *)
WideNatives == {-5, 0, 1, 4, 25, 50, 100, 250}

EncoderProgressWide(r) == EncoderProgressFrom(r, WideNatives)

(* lines 342-346, 351-362: 'end' resolves the promise, createVideo        *)
(* broadcasts 82% and returns, uploadToYouTube broadcasts 85% and suspends *)
(* in videos.insert                                                        *)
EncoderEnd(r) ==
    /\ runs[r].pc = "composing"
    /\ runs' = [runs EXCEPT ![r] =
         Emit(Called(Called([@ EXCEPT !.pc = "publishing", !.reports = 0],
                            "createVideoOk"),
                     "upload"),
              <<ProgressEvent("prepare", PctPrepare),
                ProgressEvent("upload", PctUploadStart)>>)]
    /\ files' = files \cup {OutFile(r)}
    /\ UNCHANGED <<credentials, statusLog, settings, cronJob, activeTasks,
                   settingsReqs, response>>
    /\ UNCHANGED <<sourcingVars, captionVars, sseVars, musicVars, videoVars>>

(* line 341: 'error' rejects the promise; the encoder may leave a partial *)
(* output file behind                                                      *)
EncoderError(r) ==
    /\ runs[r].pc = "composing"
    /\ \E partial \in BOOLEAN :
         CaughtEncoder(r, MsgEncoder, IF partial THEN files \cup {OutFile(r)} ELSE files)
    /\ UNCHANGED <<credentials, settings, cronJob, activeTasks, settingsReqs,
                   response>>
    /\ UNCHANGED <<sourcingVars, captionVars, sseVars, musicVars, videoVars>>

(* lines 362-382: videos.insert resolves with the video id; 98% is        *)
(* broadcast and the cleanup suspends in its first unlink                  *)
UploadOk(r) ==
    /\ runs[r].pc = "publishing"
    /\ \E id \in VideoIds :
         runs' = [runs EXCEPT ![r] =
           Emit(Called([@ EXCEPT !.pc = "cleanup", !.url = ShareUrl(id)],
                       "uploadOk"),
                <<ProgressEvent("upload", PctUploadEnd)>>)]
    /\ UNCHANGED <<credentials, statusLog, settings, cronJob, activeTasks,
                   settingsReqs, files, response>>
    /\ UNCHANGED <<sourcingVars, captionVars, sseVars, musicVars, videoVars>>

(* line 362: videos.insert rejects *)
UploadFail(r) ==
    /\ runs[r].pc = "publishing"
    /\ Caught(r, MsgUpload, files)
    /\ UNCHANGED <<credentials, settings, cronJob, activeTasks, settingsReqs,
                   response>>
    /\ UNCHANGED <<sourcingVars, captionVars, sseVars, musicVars, videoVars>>

(* The status line the caller writes when generateAndUpload returns       *)
(* (line 407 for the scheduler, line 484 for the manual trigger)           *)
StatusAfterSuccess(run) ==
    IF run.trigger = "cron" THEN StatusCronOk(run.url) ELSE StatusManualOk

(* lines 382-383 with every unlink resolving: the composed file and the   *)
(* files of all downloaded clips are gone                                  *)
Unlinked(r) ==
    files \ ({OutFile(r)} \cup {ClipFile(r, i) : i \in 1..runs[r].clips})

(* Cleanup with lines 385 and 386 swapped: done goes out before 100% *)
CleanupDoneFirst(r) ==
    /\ runs[r].pc = "cleanup"
    /\ files' = Unlinked(r)
    /\ runs' = [runs EXCEPT ![r] =
         Emit([@ EXCEPT !.pc = "completed", !.unlinks = runs[r].clips + 1],
              <<DoneEvent(@.url), ProgressEvent("upload", PctDone)>>)]
    /\ statusLog' = StatusAfterSuccess(runs[r])
    /\ UNCHANGED <<credentials, settings, cronJob, activeTasks, settingsReqs,
                   response>>
    /\ UNCHANGED <<sourcingVars, captionVars, sseVars, musicVars, videoVars>>

(* lines 381-387 and the caller's continuation: the unlinks resolve (the   *)
(* file system is taken to work; CleanupUnlinkFails is the other case),    *)
(* 100% *)
(* and done are broadcast, the caller writes the status line               *)
Cleanup(r) ==
    /\ runs[r].pc = "cleanup"
    /\ files' = Unlinked(r)
    /\ runs' = [runs EXCEPT ![r] =
         Emit([@ EXCEPT !.pc = "completed", !.unlinks = runs[r].clips + 1],
              <<ProgressEvent("upload", PctDone), DoneEvent(@.url)>>)]
    /\ statusLog' = StatusAfterSuccess(runs[r])
    /\ UNCHANGED <<credentials, settings, cronJob, activeTasks, settingsReqs,
                   response>>
    /\ UNCHANGED <<sourcingVars, captionVars, sseVars, musicVars, videoVars>>

(* The files removed when unlink call number k + 1 of lines 382-383 is the *)
(* one that rejects (k = 0: the composed file, k >= 1: clip k): the k      *)
(* files before it                                                         *)
UnlinkedBefore(r, k) ==
    files \ ((IF k > 0 THEN {OutFile(r)} ELSE {})
             \cup {ClipFile(r, i) : i \in 1..(k - 1)})

(* lines 381-387 with an unlink that rejects: the empty catch of line 384  *)
(* ends the try block there, so the unlinks after it are not made; 100%    *)
(* and done are broadcast, the caller writes the status line               *)
CleanupUnlinkFails(r) ==
    /\ runs[r].pc = "cleanup"
    /\ \E k \in 0..runs[r].clips :
         /\ files' = UnlinkedBefore(r, k)
         /\ runs' = [runs EXCEPT ![r] =
              Emit([@ EXCEPT !.pc = "completed", !.unlinks = k + 1],
                   <<ProgressEvent("upload", PctDone), DoneEvent(@.url)>>)]
    /\ statusLog' = StatusAfterSuccess(runs[r])
    /\ UNCHANGED <<credentials, settings, cronJob, activeTasks, settingsReqs,
                   response>>
    /\ UNCHANGED <<sourcingVars, captionVars, sseVars, musicVars, videoVars>>

RunStep(r) ==
    \/ QueriesDone(r)
    \/ DownloadOk(r)
    \/ DownloadFail(r)
    \/ EncoderProgress(r)
    \/ EncoderEnd(r)
    \/ EncoderError(r)
    \/ UploadOk(r)
    \/ UploadFail(r)
    \/ Cleanup(r)

NextPipeline ==
    \/ PostGenerate
    \/ CronFire
    \/ OAuthCallback
    \/ \E r \in RunIds : RunStep(r)


----------------------------------------------------------------------------
(* Settings: POST /settings, lines 453-461 *)

(* The form values: autoScheduleCron may be absent (""), autoEnabled is    *)
(* compared with the text 'true'.                                          *)
CronInputs == {"", DefaultCron, OtherCron, BadCron}

(* lines 454-457: the settings object is updated, then the handler         *)
(* suspends in saveSettings()                                              *)
PostSettings ==
    /\ settingsReqs < MaxSettingsReqs
    /\ \E cronText \in CronInputs, enabled \in BOOLEAN :
         settings' = [autoEnabled |-> enabled,
                      autoScheduleCron |->
                         IF cronText # "" THEN cronText
                         ELSE settings.autoScheduleCron]
    /\ settingsReqs' = settingsReqs + 1
    /\ UNCHANGED <<credentials, statusLog, cronJob, activeTasks, runs, files,
                   response>>
    /\ UNCHANGED <<sourcingVars, captionVars, sseVars, musicVars, videoVars>>

(* lines 458-460: saveSettings resolved, the job is rescheduled from the   *)
(* settings as they are now                                                *)
SettingsSaved ==
    /\ settingsReqs > 0
    /\ settingsReqs' = settingsReqs - 1
    /\ LET sched == scheduleAutoJob(cronJob, activeTasks, settings) IN
         /\ cronJob' = sched.cronJob
         /\ activeTasks' = sched.activeTasks
    /\ UNCHANGED <<credentials, statusLog, settings, runs, files, response>>
    /\ UNCHANGED <<sourcingVars, captionVars, sseVars, musicVars, videoVars>>

(* line 457: saveSettings rejected (tmp/ not writable); the handler ends   *)
(* there and scheduleAutoJob is not reached                                *)
SettingsSaveFailed ==
    /\ settingsReqs > 0
    /\ settingsReqs' = settingsReqs - 1
    /\ UNCHANGED <<credentials, statusLog, settings, cronJob, activeTasks,
                   runs, files, response>>
    /\ UNCHANGED <<sourcingVars, captionVars, sseVars, musicVars, videoVars>>

(* The scheduler's side of the server: triggers and settings updates;     *)
(* the runs that get started stay suspended in their first await.          *)
NextSched ==
    \/ PostGenerate
    \/ CronFire
    \/ OAuthCallback
    \/ PostSettings
    \/ SettingsSaved
    \/ SettingsSaveFailed

----------------------------------------------------------------------------
(* Clip sourcing in detail: fetchClipsForTopic, lines 216-258, one action  *)
(* per provider query and per download                                     *)

MaxResults == 2     \* videos in one provider response

Queries ==
    <<"historic reenactment", "american history", "vintage archive",
      "classic city street", "civil rights march", "retro footage",
      "old film", "topic">>

Rendition(quality, width) == [quality |-> quality, width |-> width]

(* The kinds of video a provider response holds: portrait with an hd      *)
(* rendition, landscape, portrait without renditions, square with a small  *)
(* rendition only.                                                         *)
Candidates ==
    { [width |-> 1080, height |-> 1920,
       video_files |-> <<Rendition("sd", 540), Rendition("hd", 1080)>>],
      [width |-> 1920, height |-> 1080,
       video_files |-> <<Rendition("hd", 1920)>>],
      [width |-> 1080, height |-> 1920, video_files |-> <<>>],
      [width |-> 480, height |-> 480,
       video_files |-> <<Rendition("sd", 360)>>] }

ResultLists == UNION {[1..n -> Candidates] : n \in 0..MaxResults}

(* "no rendition": what find() and files[0] give when nothing is there *)
NoFile == Rendition("none", 0)

(* Array.prototype.find over the renditions whose indices are `hits` *)
FirstOf(renditions, hits) ==
    IF hits = {} THEN NoFile
    ELSE renditions[CHOOSE i \in hits : \A j \in hits : i <= j]

(* lines 236-237: the rendition to download, or NoFile *)
PickFile(renditions) ==
    LET all == 1..Len(renditions)
        hd == FirstOf(renditions, {i \in all : /\ renditions[i].quality = "hd"
                                               /\ renditions[i].width >= 720})
        wide == FirstOf(renditions, {i \in all : renditions[i].width >= 480})
    IN IF hd # NoFile THEN hd
       ELSE IF wide # NoFile THEN wide
       ELSE IF renditions # <<>> THEN renditions[1]
       ELSE NoFile

(* lines 232-241: the loop over one response, from video i on, with        *)
(* `chosen` candidates chosen so far; the number chosen after it           *)
RECURSIVE ProcessResults(_, _, _)
ProcessResults(results, i, chosen) ==
    IF i > Len(results) THEN chosen
    ELSE LET video == results[i] IN
         IF video.height < video.width
         THEN ProcessResults(results, i + 1, chosen)
         ELSE IF PickFile(video.video_files) = NoFile
         THEN ProcessResults(results, i + 1, chosen)
         ELSE IF chosen + 1 >= ClipCap THEN chosen + 1
         ELSE ProcessResults(results, i + 1, chosen + 1)

(* What the provider offered, counted apart from the code's loop: a video *)
(* is acceptable when it is not landscape and has a rendition.             *)
Acceptable(video) == video.height >= video.width /\ video.video_files # <<>>

CountAcceptable(results) ==
    Cardinality({i \in 1..Len(results) : Acceptable(results[i])})

FetchStart ==
    [pc |-> "querying", q |-> 1, chosen |-> 0, clipPaths |-> 0,
     error |-> Null, offered |-> 0, rejected |-> 0, failedQueries |-> 0]

(* lines 245-248 after query q: stop at the cap or after the last query,   *)
(* then throw or start downloading                                         *)
AfterQuery(f) ==
    IF f.chosen < ClipCap /\ f.q < Len(Queries)
    THEN [f EXCEPT !.q = @ + 1]
    ELSE IF Insufficient(f.chosen)
    THEN [f EXCEPT !.q = @ + 1, !.pc = "failed", !.error = MsgInsufficient]
    ELSE [f EXCEPT !.q = @ + 1, !.pc = "downloading"]

(* line 231 resolves with a list of videos *)
QueryReturns ==
    /\ fetch.pc = "querying"
    /\ \E results \in ResultLists :
         fetch' = AfterQuery(
            [fetch EXCEPT
               !.chosen = ProcessResults(results, 1, @),
               !.offered = @ + CountAcceptable(results),
               !.rejected = @ + Len(results) - CountAcceptable(results)])
    /\ UNCHANGED <<pipeVars, captionVars, sseVars, musicVars, videoVars>>

(* line 231 throws (network error, non-2xx answer); lines 242-244 log it   *)
QueryFails ==
    /\ fetch.pc = "querying"
    /\ fetch' = AfterQuery([fetch EXCEPT !.failedQueries = @ + 1])
    /\ UNCHANGED <<pipeVars, captionVars, sseVars, musicVars, videoVars>>

(* lines 250-257: a download resolves; after the last one the clip paths   *)
(* are returned                                                            *)
FetchDownloadOk ==
    /\ fetch.pc = "downloading"
    /\ fetch' = [fetch EXCEPT
                   !.clipPaths = @ + 1,
                   !.pc = IF fetch.clipPaths + 1 < fetch.chosen
                          THEN "downloading" ELSE "returned"]
    /\ UNCHANGED <<pipeVars, captionVars, sseVars, musicVars, videoVars>>

(* line 252 throws *)
FetchDownloadFails ==
    /\ fetch.pc = "downloading"
    /\ fetch' = [fetch EXCEPT !.pc = "failed", !.error = MsgDownload]
    /\ UNCHANGED <<pipeVars, captionVars, sseVars, musicVars, videoVars>>

NextSourcing ==
    \/ QueryReturns
    \/ QueryFails
    \/ FetchDownloadOk
    \/ FetchDownloadFails

----------------------------------------------------------------------------
(* Caption: generateCaption, lines 129-137, one action per tag             *)

MaxTopicLen == 80   \* characters of the longest topic tried
CaptionBudget == 90

Tags ==
    << <<"#", "h", "i", "s", "t", "o", "r", "y">>,
       <<"#", "U", "S", "A">>,
       <<"#", "v", "i", "n", "t", "a", "g", "e">>,
       <<"#", "s", "h", "o", "r", "t", "s">> >>

CaptionPrefix == <<"E", "c", "h", "o", "e", "s", " ", "f", "r", "o", "m", " ">>

(* Topics: the pool's "gold rush tale" and texts of every length up to     *)
(* MaxTopicLen, as a manual request may send                               *)
Filler(n) == [i \in 1..n |-> "x"]
Topics == {<<"g", "o", "l", "d", " ", "r", "u", "s", "h", " ", "t", "a", "l", "e">>} \cup {Filler(n) : n \in 0..MaxTopicLen}

(* line 130 *)
CaptionBase(topic) == CaptionPrefix \o topic \o <<".">>

(* line 134: one turn of the loop, for tag number i *)
AddTag(c) ==
    LET tag == Tags[c.i]
        longer == c.result \o <<" ">> \o tag
    IN IF Len(longer) <= CaptionBudget
       THEN [c EXCEPT !.result = longer, !.appended = Append(@, c.i),
                      !.i = @ + 1]
       ELSE [c EXCEPT !.i = @ + 1]

InitCaption ==
    \E topic \in Topics :
       cap = [topic |-> topic, result |-> CaptionBase(topic), i |-> 1,
              appended |-> <<>>]

CaptionStep ==
    /\ cap.i <= Len(Tags)
    /\ cap' = AddTag(cap)
    /\ UNCHANGED <<pipeVars, sourcingVars, sseVars, musicVars, videoVars>>

NextCaption == CaptionStep

----------------------------------------------------------------------------
(* Observers: sseClients, sendSSE, the broadcast helpers and GET /events,  *)
(* lines 143-174                                                           *)

MaxObservers == 3   \* connections made in one behaviour
MaxBroadcasts == 2  \* broadcasts made in one behaviour

ObserverIds == 1..MaxObservers

(* lines 166-173: the response is opened, a newline written, the response  *)
(* registered                                                              *)
Connect(o) ==
    /\ observers[o].state = "none"
    /\ observers' = [observers EXCEPT ![o] =
                       [state |-> "open", written |-> <<"\n">>]]
    /\ sseClients' = sseClients \cup {o}
    /\ UNCHANGED broadcasts
    /\ UNCHANGED <<pipeVars, sourcingVars, captionVars, musicVars, videoVars>>

(* A close handler that clears the whole registry *)
DisconnectAll(o) ==
    /\ observers[o].state = "open"
    /\ observers' = [observers EXCEPT ![o].state = "closed"]
    /\ sseClients' = {}
    /\ UNCHANGED broadcasts
    /\ UNCHANGED <<pipeVars, sourcingVars, captionVars, musicVars, videoVars>>

(* line 173: the request's 'close' event *)
Disconnect(o) ==
    /\ observers[o].state = "open"
    /\ observers' = [observers EXCEPT ![o].state = "closed"]
    /\ sseClients' = sseClients \ {o}
    /\ UNCHANGED broadcasts
    /\ UNCHANGED <<pipeVars, sourcingVars, captionVars, musicVars, videoVars>>

(* lines 145-162: broadcastProgress, broadcastDone or broadcastError: the  *)
(* payload, numbered here in place of its ts, is written to every          *)
(* registered response                                                     *)
Broadcast ==
    /\ Len(broadcasts) < MaxBroadcasts
    /\ \E type \in {"progress", "done", "error"} :
         LET payload == [type |-> type, seq |-> Len(broadcasts) + 1] IN
         observers' = [o \in ObserverIds |->
                         IF o \in sseClients
                         THEN [observers[o] EXCEPT !.written = Append(@, payload)]
                         ELSE observers[o]]
    /\ broadcasts' =
         Append(broadcasts, {o \in ObserverIds : observers[o].state = "open"})
    /\ UNCHANGED sseClients
    /\ UNCHANGED <<pipeVars, sourcingVars, captionVars, musicVars, videoVars>>

InitSse ==
    /\ sseClients = {}
    /\ observers = [o \in ObserverIds |-> [state |-> "none", written |-> <<>>]]
    /\ broadcasts = <<>>

NextSse ==
    \/ \E o \in ObserverIds : Connect(o)
    \/ \E o \in ObserverIds : Disconnect(o)
    \/ Broadcast

----------------------------------------------------------------------------
(* Background audio: bgMusicPath and ensureBgMusic, lines 200-213, called  *)
(* by createVideo at line 303.  Calls overlap when runs overlap.           *)

MaxMusicCalls == 3   \* calls of ensureBgMusic in one behaviour
MaxRemovals == 1     \* times the cached file is removed from tmp/

MusicCallers == 1..MaxMusicCalls

MusicDest == "tmp/bg_music.mp3"

(* line 203: the cache test *)
CacheHit(m) == m.bgMusicPath # Null /\ m.cached

InitMusic ==
    \E configured \in BOOLEAN :
       music = [configured |-> configured, bgMusicPath |-> Null,
                cached |-> FALSE,
                calls |-> [c \in MusicCallers |-> [pc |-> "idle", result |-> Null]],
                downloads |-> 0, writes |-> 0, removals |-> 0]

(* lines 202-206: the call up to its return or to the await of the         *)
(* download                                                                *)
EnsureBgMusic(c) ==
    /\ music.calls[c].pc = "idle"
    /\ music' =
         IF ~music.configured
         THEN [music EXCEPT !.calls[c] = [pc |-> "returned", result |-> Null]]
         ELSE IF CacheHit(music)
         THEN [music EXCEPT !.calls[c] =
                  [pc |-> "returned", result |-> music.bgMusicPath]]
         ELSE [music EXCEPT !.calls[c].pc = "downloading",
                            !.downloads = @ + 1]
    /\ UNCHANGED <<pipeVars, sourcingVars, captionVars, sseVars, videoVars>>

(* lines 206-208: downloadToFile resolved: the file is written, the path   *)
(* remembered and returned                                                 *)
MusicDownloadOk(c) ==
    /\ music.calls[c].pc = "downloading"
    /\ music' = [music EXCEPT
                   !.cached = TRUE,
                   !.writes = @ + 1,
                   !.bgMusicPath = MusicDest,
                   !.calls[c] = [pc |-> "returned", result |-> MusicDest]]
    /\ UNCHANGED <<pipeVars, sourcingVars, captionVars, sseVars, videoVars>>

(* lines 209-212: downloadToFile threw: logged, null returned *)
MusicDownloadFails(c) ==
    /\ music.calls[c].pc = "downloading"
    /\ music' = [music EXCEPT
                   !.calls[c] = [pc |-> "returned", result |-> Null]]
    /\ UNCHANGED <<pipeVars, sourcingVars, captionVars, sseVars, videoVars>>

(* The cached file is removed from local storage by something else *)
MusicFileRemoved ==
    /\ music.cached
    /\ music.removals < MaxRemovals
    /\ music' = [music EXCEPT !.cached = FALSE, !.removals = @ + 1]
    /\ UNCHANGED <<pipeVars, sourcingVars, captionVars, sseVars, videoVars>>

NextMusic ==
    \/ \E c \in MusicCallers : EnsureBgMusic(c)
    \/ \E c \in MusicCallers : MusicDownloadOk(c)
    \/ \E c \in MusicCallers : MusicDownloadFails(c)
    \/ MusicFileRemoved

----------------------------------------------------------------------------
(* Composition: createVideo, lines 262-343, from its call to cmd.save.     *)
(* Times are in milliseconds; text is a sequence of characters.            *)

MaxTitleLen == 2     \* characters of the longest title tried

MaxSegments == 6     \* Math.min(clips.length, 6)
TotalDurMs == 15000  \* totalDur = 15.0
XfadeMs == 350       \* xfadeDur = 0.35

Backslash == "\\"
Apostrophe == "'"
Colon == ":"

TitleAlphabet == {Apostrophe, Colon, Backslash, "a"}
Titles == UNION {[1..n -> TitleAlphabet] : n \in 1..MaxTitleLen}

(* String.prototype.replace with a global pattern of one character *)
RECURSIVE ReplaceAll(_, _, _)
ReplaceAll(s, ch, replacement) ==
    IF s = <<>> THEN <<>>
    ELSE (IF Head(s) = ch THEN replacement ELSE <<Head(s)>>)
         \o ReplaceAll(Tail(s), ch, replacement)

(* line 140 *)
ffEscape(s) ==
    ReplaceAll(ReplaceAll(s, Apostrophe, <<Backslash, Apostrophe>>),
               Colon, <<Backslash, Colon>>)

(* line 265 *)
Count(n) == Min(n, MaxSegments)

(* A segment duration that leaves the cross-fade overlaps out *)
SegDurNoOverlap(count) == Round(TotalDurMs, count)

(* line 267: toFixed(3) rounds to the millisecond; the one count whose     *)
(* quotient lies on a half, 4 (4012.5), comes out at 4.013 in the source's *)
(* double arithmetic, as rounding half up gives here                       *)
SegDurMs(count) == Round(TotalDurMs + XfadeMs * (count - 1), count)

(* An offset that does not take the cross-fade back *)
OffsetAfterNoOverlap(prev, segDur) == prev + segDur

(* line 270, i > 0 *)
OffsetAfter(prev, segDur) == prev + segDur - XfadeMs

(* lines 268-271; Offsets(count, segDur)[i + 1] is the source's offsets[i] *)
RECURSIVE Offsets(_, _)
Offsets(count, segDur) ==
    IF count <= 1 THEN <<0>>
    ELSE LET before == Offsets(count - 1, segDur)
         IN Append(before, OffsetAfter(Last(before), segDur))

(* Labels of the filter graph: [i:v], [vi], [vxfi], [vtmp], [vtxt1],       *)
(* [vfinal]                                                                *)
InputLabel(i) == <<"in", i>>
ClipLabel(i) == <<"v", i>>
XfLabel(i) == <<"vxf", i>>
TmpLabel == <<"vtmp", 0>>
Txt1Label == <<"vtxt1", 0>>
FinalLabel == <<"vfinal", 0>>

(* lines 275-277 *)
PreNode(i, segDur) ==
    [kind |-> "trim", inputs |-> <<InputLabel(i)>>, output |-> ClipLabel(i),
     arg |-> <<segDur>>]

(* line 281 *)
XfadeOut(i, count) == IF i = count - 1 THEN TmpLabel ELSE XfLabel(i)

(* lines 282-284 *)
XfadeNode(current, i, count, offsets) ==
    [kind |-> "xfade", inputs |-> <<current, ClipLabel(i)>>,
     output |-> XfadeOut(i, count), arg |-> <<offsets[i + 1]>>]

(* lines 280-286 from i on: the nodes pushed and the final `current` *)
RECURSIVE XfadeLoop(_, _, _, _)
XfadeLoop(i, count, offsets, current) ==
    IF i >= count THEN [nodes |-> <<>>, current |-> current]
    ELSE LET node == XfadeNode(current, i, count, offsets)
             rest == XfadeLoop(i + 1, count, offsets, node.output)
         IN [nodes |-> <<node>> \o rest.nodes, current |-> rest.current]

(* A title overlay that always reads the cross-fade output *)
TitleInputTmp(current) == TmpLabel

(* line 288: the title overlay reads `current` *)
TitleInput(current) == current

(* lines 287-292 *)
TitleNode(current, escTitle) ==
    [kind |-> "drawtext", inputs |-> <<TitleInput(current)>>,
     output |-> Txt1Label, arg |-> escTitle]

(* lines 293-297 *)
BrandNode ==
    [kind |-> "drawtext", inputs |-> <<Txt1Label>>, output |-> FinalLabel,
     arg |-> <<"American Short Story">>]

(* lines 272-297 *)
Filters(count, segDur, offsets, escTitle) ==
    LET xf == XfadeLoop(1, count, offsets, ClipLabel(0))
    IN [i \in 1..count |-> PreNode(i - 1, segDur)]
       \o xf.nodes
       \o <<TitleNode(xf.current, escTitle), BrandNode>>

(* lines 266, 299-302: the clips given to the encoder, by their place in   *)
(* the array fetchClipsForTopic returned                                   *)
VideoInput(i) == <<"clip", i>>
MusicInput == <<"music", 0>>
NoAudio == -1

(* An audio mapping that counts all sourced clips *)
AudioIndexAllClips(n, count) == n

(* line 309: `${used.length}:a` *)
AudioIndex(n, count) == count

InitVideo ==
    \E n \in 1..ClipCap, title \in Titles :
       createVideo = [pc |-> "called", clips |-> n, title |-> title,
                      count |-> 0, segDur |-> 0, offsets |-> <<>>,
                      filters |-> <<>>, inputs |-> <<>>,
                      mapVideo |-> Null, mapAudio |-> NoAudio]

(* lines 263-303: timing, filters and video inputs, up to the await of     *)
(* ensureBgMusic                                                           *)
BuildCommand ==
    /\ createVideo.pc = "called"
    /\ LET count == Count(createVideo.clips)
           segDur == SegDurMs(count)
           offsets == Offsets(count, segDur)
       IN createVideo' =
            [createVideo EXCEPT
               !.pc = "awaitMusic",
               !.count = count,
               !.segDur = segDur,
               !.offsets = offsets,
               !.filters = Filters(count, segDur, offsets, ffEscape(createVideo.title)),
               !.inputs = [i \in 1..count |-> VideoInput(i)]]
    /\ UNCHANGED <<pipeVars, sourcingVars, captionVars, sseVars, musicVars>>

(* lines 304-343: ensureBgMusic returned a path or null; the music input,  *)
(* the filter graph's output and the output mapping are set and the        *)
(* encoder is started                                                      *)
MusicResolved ==
    /\ createVideo.pc = "awaitMusic"
    /\ \E m \in {Null, MusicDest} :
         createVideo' =
            [createVideo EXCEPT
               !.pc = "saving",
               !.inputs = IF m # Null THEN Append(@, MusicInput) ELSE @,
               !.mapVideo = FinalLabel,
               !.mapAudio = IF m # Null
                            THEN AudioIndex(createVideo.clips, createVideo.count)
                            ELSE NoAudio]
    /\ UNCHANGED <<pipeVars, sourcingVars, captionVars, sseVars, musicVars>>

NextVideo == BuildCommand \/ MusicResolved

----------------------------------------------------------------------------
(* Specifications: the server's pipeline, its scheduler, and the three     *)
(* components taken alone.  A component that a specification leaves out    *)
(* rests in the state below.                                               *)

PipelineAtRest ==
    /\ credentials = FALSE
    /\ statusLog = StatusInitial
    /\ settings = [autoEnabled |-> FALSE, autoScheduleCron |-> DefaultCron]
    /\ cronJob = Null
    /\ activeTasks = NoTasks
    /\ settingsReqs = 0
    /\ runs = [r \in RunIds |-> IdleRun]
    /\ files = {}
    /\ response = "none"

SourcingAtRest == fetch = Null
CaptionAtRest == cap = Null
SseAtRest == sseClients = {} /\ observers = <<>> /\ broadcasts = <<>>
MusicAtRest == music = Null
VideoAtRest == createVideo = Null
OthersAtRest == MusicAtRest /\ VideoAtRest

Init ==
    InitPipeline /\ SourcingAtRest /\ CaptionAtRest /\ SseAtRest /\ OthersAtRest

Spec == Init /\ [][NextPipeline]_vars

SpecSched == Init /\ [][NextSched]_vars

(* Every external call returns: a suspended run is resumed. *)
FairSpec == Spec /\ \A r \in RunIds : WF_vars(RunStep(r))

(* One run alone from the call of createVideo on (the state in which       *)
(* fetchClipsForTopic has returned n clips and the encoder was started),   *)
(* with the whole range of native values and with unlinks that may fail.   *)
ComposingRun(trigger, n) ==
    EnterCompose([StartedRun(trigger) EXCEPT
                    !.chosen = n, !.clips = n,
                    !.events = @ \o [i \in 1..n |->
                                       ProgressEvent("clips", ClipPct(i, n))]])

InitComposeAlone ==
    /\ credentials = TRUE
    /\ statusLog = StatusInitial
    /\ settings = [autoEnabled |-> TRUE, autoScheduleCron |-> DefaultCron]
    /\ cronJob = DefaultCron
    /\ activeTasks = [NoTasks EXCEPT ![DefaultCron] = 1]
    /\ settingsReqs = 0
    /\ \E trigger \in {"manual", "cron"}, n \in MinClips..ClipCap :
         /\ runs = [r \in RunIds |->
                      IF r = 1 THEN ComposingRun(trigger, n) ELSE IdleRun]
         /\ files = {ClipFile(1, i) : i \in 1..n}
    /\ response = "none"
    /\ SourcingAtRest /\ CaptionAtRest /\ SseAtRest /\ OthersAtRest

NextCompose ==
    \E r \in RunIds :
       \/ EncoderProgressWide(r)
       \/ EncoderEnd(r)
       \/ EncoderError(r)
       \/ UploadOk(r)
       \/ UploadFail(r)
       \/ Cleanup(r)
       \/ CleanupUnlinkFails(r)

SpecCompose == InitComposeAlone /\ [][NextCompose]_vars

InitSourcingAlone ==
    /\ PipelineAtRest /\ fetch = FetchStart /\ CaptionAtRest /\ SseAtRest
    /\ OthersAtRest

SpecSourcing == InitSourcingAlone /\ [][NextSourcing]_vars

InitCaptionAlone ==
    /\ PipelineAtRest /\ SourcingAtRest /\ InitCaption /\ SseAtRest
    /\ OthersAtRest

SpecCaption == InitCaptionAlone /\ [][NextCaption]_vars

InitSseAlone ==
    /\ PipelineAtRest /\ SourcingAtRest /\ CaptionAtRest /\ InitSse
    /\ OthersAtRest

SpecSse == InitSseAlone /\ [][NextSse]_vars

InitMusicAlone ==
    /\ PipelineAtRest /\ SourcingAtRest /\ CaptionAtRest /\ SseAtRest
    /\ InitMusic /\ VideoAtRest

SpecMusic == InitMusicAlone /\ [][NextMusic]_vars

InitVideoAlone ==
    /\ PipelineAtRest /\ SourcingAtRest /\ CaptionAtRest /\ SseAtRest
    /\ MusicAtRest /\ InitVideo

SpecVideo == InitVideoAlone /\ [][NextVideo]_vars

----------------------------------------------------------------------------
(* Properties of the pipeline *)

Started(r) == runs[r].calls # <<>>
Finished(r) == runs[r].pc \in {"completed", "failed"}

TerminalPositions(run) ==
    {i \in 1..Len(run.events) : run.events[i].type \in {"done", "error"}}

ProgressPositions(run) ==
    {i \in 1..Len(run.events) : run.events[i].type = "progress"}

(* C1: when a run's terminal done or error event has been broadcast, none  *)
(* of the clip files it downloaded and no composed output file of it is    *)
(* left on local storage (every unlink that is attempted succeeds).        *)
C1_FilesRemovedAtTerminalEvent ==
    \A r \in RunIds : Finished(r) => RunFiles(r) = {}

(* C2: a started run broadcasts at most one terminal event, that event is  *)
(* the last event of the run, the run has one exactly when it is finished, *)
(* and, when every external call returns, every started run gets there.    *)
C2_ExactlyOneTerminalEvent ==
    /\ [](\A r \in RunIds :
            Started(r) =>
              LET t == TerminalPositions(runs[r]) IN
              /\ Cardinality(t) <= 1
              /\ t # {} => t = {Len(runs[r].events)}
              /\ Finished(r) <=> t # {})
    /\ \A r \in RunIds :
         Started(r) ~> (Cardinality(TerminalPositions(runs[r])) = 1)

C2_Witness ==
    \E r \in RunIds :
       /\ runs[r].pc = "completed"
       /\ Last(runs[r].events).type = "done"
       /\ Len(runs[r].events) > 12

(* C3: the percents of the progress events of one run never go down, in    *)
(* emission order.                                                         *)
C3_PercentNonDecreasing ==
    \A r \in RunIds :
       \A i, j \in ProgressPositions(runs[r]) :
          i < j => runs[r].events[i].percent <= runs[r].events[j].percent

(* The states of section 4.4 of the specification *)
Stage(run) ==
    CASE run.pc = "idle" -> "Idle"
      [] run.pc \in {"sourcing", "downloading"} -> "Sourcing"
      [] run.pc = "composing" -> "Composing"
      [] run.pc \in {"publishing", "cleanup"} -> "Publishing"
      [] run.pc = "completed" -> "Completed"
      [] run.pc = "failed" -> "Failed"
      [] OTHER -> "Skipped"

StageSteps ==
    {<<"Idle", "Sourcing">>, <<"Sourcing", "Composing">>,
     <<"Composing", "Publishing">>, <<"Publishing", "Completed">>,
     <<"Idle", "Skipped">>}
    \cup {<<s, "Failed">> : s \in {"Sourcing", "Composing", "Publishing"}}

PipelineOrder ==
    <<"fetchClips", "fetchClipsOk", "createVideo", "createVideoOk",
      "upload", "uploadOk">>

IsPrefix(s, t) ==
    /\ Len(s) <= Len(t)
    /\ \A i \in 1..Len(s) : s[i] = t[i]

(* C4: the stage calls of a run and their successful returns happen in     *)
(* pipeline order (the encoder is called only after sourcing returned all  *)
(* its clips, the upload only after the encoder ended well); a run moves   *)
(* only Idle, Sourcing, Composing, Publishing, Completed or to Failed; a   *)
(* run whose failure was reported is Failed; a Completed or Failed run     *)
(* does not change any more.                                               *)
C4_StagesInOrder ==
    /\ [](\A r \in RunIds :
            LET run == runs[r] IN
            /\ IsPrefix(run.calls, PipelineOrder)
            /\ Stage(run) = "Composing" =>
                 /\ Last(run.calls) = "createVideo"
                 /\ run.clips = run.chosen /\ run.chosen >= MinClips
            /\ Stage(run) = "Publishing" =>
                 /\ Last(run.calls) \in {"upload", "uploadOk"}
                 /\ OutFile(r) \in files
            /\ Stage(run) = "Completed" => run.calls = PipelineOrder
            /\ (\E i \in 1..Len(run.events) : run.events[i].type = "error")
                 => Stage(run) \in {"Failed", "Skipped"})
    /\ [][\A r \in RunIds :
            LET a == Stage(runs[r])
                b == Stage(runs'[r])
            IN /\ a = b \/ <<a, b>> \in StageSteps
               /\ a \in {"Completed", "Failed"} => runs'[r] = runs[r]]_pipeVars

C4_Witness ==
    \E r \in RunIds :
       /\ Stage(runs[r]) = "Completed"
       /\ runs[r].calls = PipelineOrder
       /\ runs[r].chosen = 7

(* C6: a firing of the schedule starts a run only in a state where         *)
(* settings.autoEnabled is true and the access credential is present.      *)
C6_FiringNeedsEnabledAndCredential ==
    [][\A r \in RunIds :
         (/\ runs[r].pc = "idle"
          /\ runs'[r].trigger = "cron"
          /\ runs'[r].pc = "sourcing")
         => (settings.autoEnabled /\ credentials)]_pipeVars

(* C7: a POST /generate answered while no credential is present answers    *)
(* with the re-authentication message and leaves the runs (so their        *)
(* events), the files and the status line as they were; no manual run      *)
(* starts without the credential.                                          *)
C7_NoCredentialNoWork ==
    [][/\ (~credentials /\ response' # response) =>
            /\ response' = "link YouTube first"
            /\ runs' = runs
            /\ files' = files
            /\ statusLog' = statusLog
       /\ \A r \in RunIds :
            (runs[r].pc = "idle" /\ runs'[r].trigger = "manual") => credentials
      ]_pipeVars

C7_Witness ==
    /\ ~credentials
    /\ response = "link YouTube first"
    /\ \E e \in DOMAIN activeTasks : activeTasks[e] > 0

(* The error each stage fails with *)
StageMessage(pc) ==
    CASE pc = "sourcing" -> MsgInsufficient
      [] pc = "downloading" -> MsgDownload
      [] pc = "composing" -> MsgEncoder
      [] pc = "publishing" -> MsgUpload
      [] OTHER -> Null

(* C8: the step in which a run fails, whatever the stage and the trigger,  *)
(* broadcasts one error event with the message of that stage's failure as  *)
(* the run's last event and sets the status line to the failure text with  *)
(* that message; a failed run has exactly one error event.                 *)
C8_FailureReported ==
    /\ [][\A r \in RunIds :
            (runs[r].pc # "failed" /\ runs'[r].pc = "failed") =>
              LET m == StageMessage(runs[r].pc) IN
              /\ m # Null
              /\ runs'[r].events = Append(runs[r].events, ErrorEvent(m))
              /\ statusLog' = StatusFailed(m)
              /\ runs'[r].trigger = runs[r].trigger]_pipeVars
    /\ [](\A r \in RunIds :
            runs[r].pc = "failed" =>
              Cardinality({i \in 1..Len(runs[r].events) :
                             runs[r].events[i].type = "error"}) = 1)

C8_Witness ==
    \E r \in RunIds :
       /\ runs[r].pc = "failed"
       /\ runs[r].trigger = "cron"
       /\ Last(runs[r].events) = ErrorEvent(MsgUpload)
       /\ statusLog = StatusFailed(MsgUpload)

(* The trigger that did not start the run *)
OtherTrigger(trigger) == IF trigger = "cron" THEN "manual" ELSE "cron"

(* C11: the status line written when a run ends (success with its share    *)
(* URL, or failure with its message) is, apart from the timestamp, the     *)
(* line that is written for the same outcome of a run started by the other *)
(* trigger.                                                                *)
C11_StatusLineSameForBothTriggers ==
    [][\A r \in RunIds :
         /\ (runs[r].pc = "cleanup" /\ runs'[r].pc = "completed") =>
               statusLog' = StatusAfterSuccess(
                              [runs[r] EXCEPT !.trigger = OtherTrigger(@)])
         /\ (runs[r].pc # "failed" /\ runs'[r].pc = "failed") =>
               \E m \in {MsgInsufficient, MsgDownload, MsgEncoder, MsgUpload} :
                  statusLog' = StatusFailed(m)]_pipeVars

(* C12: a completed run has made an unlink call for its composed file and  *)
(* for every clip it downloaded, whichever of these calls failed, and its  *)
(* last two events are the 100% progress event and the done event.         *)
C12_EveryDeletionAttempted ==
    \A r \in RunIds :
       runs[r].pc = "completed" =>
          /\ runs[r].unlinks = runs[r].clips + 1
          /\ Len(runs[r].events) >= 2
          /\ runs[r].events[Len(runs[r].events) - 1]
               = ProgressEvent("upload", PctDone)
          /\ Last(runs[r].events) = DoneEvent(runs[r].url)

ComposeEvents(run) ==
    SelectSeq(run.events,
              LAMBDA e : e.type = "progress" /\ e.stepId = "compose")

(* The mapping as the specification gives it *)
Clamp(lo, hi, x) == IF x < lo THEN lo ELSE IF x > hi THEN hi ELSE x
MappedPct(native) == Clamp(35, 75, 35 + Round(native * 4, 10))

(* C14: every compose-stage event carries an integer percent from 35 to 75 *)
(* and no two consecutive compose-stage events carry the same percent; a   *)
(* report of native value p that broadcasts an event broadcasts            *)
(* clamp(35, 75, 35 + round(p * 0.4)), and only when that differs from the *)
(* value mapped before (35 at the start).                                  *)
C14_ComposePercentMappedAndChanging ==
    /\ [](\A r \in RunIds :
            LET ce == ComposeEvents(runs[r]) IN
            /\ \A i \in 1..Len(ce) : ce[i].percent \in 35..75
            /\ \A i \in 1..(Len(ce) - 1) : ce[i].percent # ce[i + 1].percent
            /\ runs[r].lastPct = IF ce = <<>> THEN 35 ELSE Last(ce).percent)
    /\ [][\A r \in RunIds : \A p \in WideNatives :
            (/\ runs[r].pc = "composing"
             /\ runs'[r] = [OnProgress(runs[r], p) EXCEPT !.reports = @ + 1]
             /\ runs'[r].events # runs[r].events)
            => /\ runs'[r].events =
                    Append(runs[r].events,
                           ProgressEvent("compose", MappedPct(p)))
               /\ MappedPct(p) # runs[r].lastPct]_pipeVars

C14_Witness ==
    \E r \in RunIds :
       /\ runs[r].pc = "composing"
       /\ ComposeEvents(runs[r]) =
            <<ProgressEvent("compose", 75), ProgressEvent("compose", 35)>>

TaskCount(tasks) == tasks[DefaultCron] + tasks[OtherCron]

(* the job there should be after a call of scheduleAutoJob under settings s *)
ExpectedJob(s) ==
    IF s.autoEnabled /\ ValidCron(s.autoScheduleCron)
    THEN s.autoScheduleCron ELSE Null

(* C20: at most one scheduled job is active, and it is the registered one; *)
(* a call of scheduleAutoJob after a settings update leaves active exactly *)
(* the job for the schedule expression of the settings at that call, or no *)
(* job when the schedule is disabled or the expression is rejected, the    *)
(* job registered before having been stopped.                              *)
C20_AtMostOneActiveJob ==
    /\ [](/\ TaskCount(activeTasks) <= 1
          /\ cronJob = Null <=> TaskCount(activeTasks) = 0
          /\ cronJob # Null => activeTasks[cronJob] = 1)
    /\ [][SettingsSaved =>
            /\ cronJob' = ExpectedJob(settings)
            /\ activeTasks' =
                 IF ExpectedJob(settings) = Null THEN NoTasks
                 ELSE [NoTasks EXCEPT ![ExpectedJob(settings)] = 1]]_pipeVars

C20_Witness ==
    /\ cronJob = OtherCron
    /\ activeTasks = [NoTasks EXCEPT ![OtherCron] = 1]
    /\ settingsReqs = 0
    /\ \E r \in RunIds : runs[r].trigger = "cron"

----------------------------------------------------------------------------
(* Properties of the components *)

QueriesOver == fetch.pc \in {"failed", "downloading", "returned"}

(* C5: once the queries are over, fetchClipsForTopic has thrown the       *)
(* insufficient-clips error exactly when the provider offered fewer than   *)
(* MinClips acceptable candidates in all its responses, however many it    *)
(* offered that were rejected; that error is thrown only after the last    *)
(* query, and nothing is thrown while querying, whatever queries failed;   *)
(* a call that returns gives MinClips to ClipCap clips.                    *)
C5_InsufficientExactlyBelowMinimum ==
    /\ QueriesOver =>
         ((fetch.pc = "failed" /\ fetch.error = MsgInsufficient)
            <=> fetch.offered < MinClips)
    /\ fetch.error = MsgInsufficient => fetch.q > Len(Queries)
    /\ fetch.pc = "querying" => fetch.error = Null
    /\ fetch.chosen \in 0..ClipCap
    /\ fetch.pc = "returned" =>
         /\ fetch.clipPaths = fetch.chosen
         /\ fetch.clipPaths \in MinClips..ClipCap

C5_Witness ==
    /\ fetch.pc = "failed"
    /\ fetch.error = MsgInsufficient
    /\ fetch.offered = MinClips - 1
    /\ fetch.rejected > MinClips
    /\ fetch.failedQueries > 0

(* C9: the caption generateCaption returns is at most 90 characters long   *)
(* and the tags appended to it are the first k of the tag list, in order,  *)
(* for some k.                                                             *)
C9_CaptionWithinBudgetTagsPrefix ==
    cap.i > Len(Tags) =>
       /\ Len(cap.result) <= CaptionBudget
       /\ cap.appended = [k \in 1..Len(cap.appended) |-> k]

(* C13: as long as the cached file was never removed from local storage,   *)
(* the background-audio asset has been downloaded and written at most      *)
(* once, whatever calls of ensureBgMusic overlapped.                       *)
C13_MusicDownloadedAtMostOnce ==
    music.removals = 0 => music.writes <= 1

(* C10: every broadcast made so far has been written exactly once to each  *)
(* observer that was connected and not closed when it was made and to no   *)
(* other observer, and the registry holds exactly the observers that are   *)
(* connected and not closed.                                               *)
C10_BroadcastReachesOpenObservers ==
    /\ sseClients = {o \in ObserverIds : observers[o].state = "open"}
    /\ \A o \in ObserverIds : \A n \in 1..Len(broadcasts) :
         Cardinality({i \in 2..Len(observers[o].written) :
                         observers[o].written[i].seq = n})
           = IF o \in broadcasts[n] THEN 1 ELSE 0

C10_Witness ==
    \E a, b \in ObserverIds :
       /\ observers[a].state = "closed"
       /\ observers[b].state = "open"
       /\ Len(observers[a].written) = 2
       /\ Len(observers[b].written) = 3
       /\ broadcasts = <<{a, b}, {b}>>

----------------------------------------------------------------------------
(* Properties of createVideo *)

Built == createVideo.pc # "called"

Positions(f, kind) == {i \in 1..Len(f) : f[i].kind = kind}

(* the place of the cross-fade node at position i among the cross-fades *)
XfRank(f, i) == Cardinality({j \in Positions(f, "xfade") : j <= i})

Abs(x) == IF x < 0 THEN -x ELSE x

(* C15: for a clip count c from 1 to 6 the filter graph has c per-clip     *)
(* pre-processing nodes, c - 1 cross-fade nodes of which the k-th takes    *)
(* the output of the one before it (of the first clip's node for k = 1)    *)
(* and the node of clip k, and 2 text-overlay nodes; its last node is the  *)
(* only one named vfinal, which is the output handed to the encoder; every *)
(* input label is an encoder input or the output of an earlier node.       *)
C15_FilterGraphShape ==
    Built =>
      LET f == createVideo.filters
          c == createVideo.count
          xf == Positions(f, "xfade")
      IN /\ c \in 1..6
         /\ Cardinality(Positions(f, "trim")) = c
         /\ Cardinality(xf) = c - 1
         /\ Cardinality(Positions(f, "drawtext")) = 2
         /\ Len(f) = 2 * c + 1
         /\ \A i \in xf :
              LET k == XfRank(f, i) IN
              /\ f[i].inputs[2] = ClipLabel(k)
              /\ f[i].inputs[1] =
                   IF k = 1 THEN ClipLabel(0)
                   ELSE f[CHOOSE j \in xf : XfRank(f, j) = k - 1].output
         /\ Last(f).output = FinalLabel
         /\ \A i, j \in 1..Len(f) : f[i].output = f[j].output => i = j
         /\ \A i \in 1..Len(f) : \A k \in 1..Len(f[i].inputs) :
              LET l == f[i].inputs[k] IN
              \/ l[1] = "in" /\ l[2] \in 0..(c - 1)
              \/ \E j \in 1..(i - 1) : f[j].output = l
         /\ createVideo.pc = "saving" => createVideo.mapVideo = FinalLabel

C15_Witness ==
    /\ createVideo.pc = "saving"
    /\ createVideo.count = 1
    /\ Len(createVideo.filters) = 3
    /\ createVideo.filters[2].inputs = <<ClipLabel(0)>>

NonDecreasing(seq) == \A i \in 1..(Len(seq) - 1) : seq[i] <= seq[i + 1]

(* C16 as stated: the offsets are non-decreasing and the last offset plus  *)
(* segDur is totalDuration + crossfadeDuration, within a few milliseconds. *)
C16_OffsetsEndAtTotalPlusCrossfade ==
    Built =>
      /\ NonDecreasing(createVideo.offsets)
      /\ Abs(Last(createVideo.offsets) + createVideo.segDur
               - (TotalDurMs + XfadeMs)) <= 5

(* C16, amended: there is one offset per used clip, the first is 0, the    *)
(* offsets are non-decreasing, and the last offset plus segDur is          *)
(* totalDuration within 3 milliseconds.                                    *)
C16_OffsetsEndAtTotalDuration ==
    Built =>
      /\ Len(createVideo.offsets) = createVideo.count
      /\ createVideo.offsets[1] = 0
      /\ NonDecreasing(createVideo.offsets)
      /\ Abs(Last(createVideo.offsets) + createVideo.segDur - TotalDurMs) <= 3

C16_Witness ==
    /\ Built
    /\ createVideo.count = 6
    /\ createVideo.offsets = <<0, 2442, 4884, 7326, 9768, 12210>>

Timeline(c, segDur) == c * segDur - (c - 1) * XfadeMs

(* C17 as stated: with segDur rounded to the millisecond, the concatenated *)
(* timeline c * segDur - (c - 1) * crossfadeDuration is exactly            *)
(* totalDuration.                                                          *)
C17_TimelineExactlyTotal ==
    Built =>
      Timeline(createVideo.count, createVideo.segDur) = TotalDurMs

(* C17, amended: the concatenated timeline differs from totalDuration by   *)
(* at most half a millisecond per clip, and is exactly totalDuration when  *)
(* the unrounded segDur is a whole number of milliseconds.                 *)
C17_TimelineWithinRounding ==
    Built =>
      LET c == createVideo.count
          t == Timeline(c, createVideo.segDur)
      IN /\ 2 * Abs(t - TotalDurMs) <= c
         /\ (TotalDurMs + XfadeMs * (c - 1)) % c = 0 => t = TotalDurMs

C17_Witness ==
    /\ Built
    /\ createVideo.count = 3
    /\ createVideo.segDur = 5233
    /\ Timeline(3, createVideo.segDur) = 14999

(* the number of consecutive backslashes right before position i *)
BackslashesBefore(text, i) ==
    LET stops == {j \in 0..(i - 1) : j = 0 \/ text[j] # Backslash}
        stop == CHOOSE j \in stops : \A k \in stops : k <= j
    IN i - 1 - stop

(* C18: the text of the title overlay node has no unescaped apostrophe and *)
(* no unescaped colon: each is preceded by an odd number of consecutive    *)
(* backslashes.                                                            *)
C18_NoUnescapedQuoteOrColon ==
    Built =>
      LET f == createVideo.filters
          text == f[Len(f) - 1].arg
      IN \A i \in 1..Len(text) :
            text[i] \in {Apostrophe, Colon} =>
               BackslashesBefore(text, i) % 2 = 1

(* C19: when createVideo is given the 6 to 8 clips that sourcing returns   *)
(* to a run, the encoder's video inputs are exactly the first 6 clips in   *)
(* sourcing order, the filter graph refers to exactly the inputs 0 to 5,   *)
(* and the background audio, when present, is the one further input, with  *)
(* index 6, which the audio mapping names; without it no audio is mapped.  *)
C19_EncoderGetsFirstSixClips ==
    (createVideo.pc = "saving" /\ createVideo.clips \in MinClips..ClipCap) =>
      LET inputs == createVideo.inputs
          f == createVideo.filters
      IN /\ {i \in 1..Len(inputs) : inputs[i][1] = "clip"} = 1..6
         /\ \A i \in 1..6 : inputs[i] = VideoInput(i)
         /\ {f[i].inputs[k][2] :
               i \in {j \in 1..Len(f) : f[j].kind = "trim"}, k \in {1}} = 0..5
         /\ \A i \in 1..Len(f) : \A k \in 1..Len(f[i].inputs) :
              f[i].inputs[k][1] = "in" => f[i].kind = "trim"
         /\ Len(inputs) \in {6, 7}
         /\ Len(inputs) = 7 =>
              inputs[7] = MusicInput /\ createVideo.mapAudio = 6
         /\ Len(inputs) = 6 => createVideo.mapAudio = NoAudio

C19_Witness ==
    /\ createVideo.pc = "saving"
    /\ createVideo.clips = 8
    /\ Len(createVideo.inputs) = 7
    /\ createVideo.mapAudio = 6

============================================================================
